---- MODULE Spec2Model ----
(***************************************************************************)
(* Model of include/fplus/generate.h (FunctionalPlus): generate,           *)
(* generate_by_idx, replicate, infixes, product_idxs_helper, product_idxs, *)
(* product, permutations, combinations, combinations_with_replacement.     *)
(*                                                                         *)
(* A behaviour is one call of one of the functions.  Loops and the         *)
(* recursion of product_idxs_helper advance one iteration / one recursive  *)
(* call per step, so that a call that does not return is a behaviour that  *)
(* never reaches pc = "done".                                              *)
(***************************************************************************)
EXTENDS Integers, Sequences, FiniteSets, TLC

\* ------------------------------------------------------------------ bounds
\* Largest source sequence, largest requested power, largest amount for
\* generate / generate_by_idx, largest window length for infixes.
MaxN == 4
MaxPower == 3
MaxAmount == 3
MaxLen == 3

\* Values a generator may return, and the elements of the sources that hold
\* equal elements at different positions.
Elems == {"A", "B"}

\* Elements of the sources whose elements are pairwise distinct.
Alphabet == <<"A", "B", "C", "D", "E", "F">>

\* Width of std::size_t (reps_left, generate.h line 90).
SizeBits == 64

\* Number of nested product_idxs_helper frames the machine can hold.  Every
\* call with 1 <= power <= MaxPower needs exactly `power` frames, so the
\* limit is never met by a call whose recursion counts down to 1.
StackLimit == MaxPower + 1

\* All sequences over S of length 0..n.
SeqsUpTo(S, n) == UNION {[1..k -> S] : k \in 0..n}

\* The source sequences a call is given: every sequence over Elems of size
\* 0..MaxN (equal elements at different positions), and "", "A", "AB", "ABC",
\* ... up to size MaxN (pairwise distinct elements).
Sources ==
    SeqsUpTo(Elems, MaxN) \cup {SubSeq(Alphabet, 1, k) : k \in 0..MaxN}

\* ------------------------------------------------------- std::size_t values
\* A size_t is kept as its SizeBits binary digits, least significant first,
\* so that decrementing 0 wraps to 2^SizeBits - 1 as the hardware does.
ToSizeT(k) ==
    [b \in 1..SizeBits |-> IF b > 30 THEN 0 ELSE (k \div (2 ^ (b - 1))) % 2]

SizeOne == ToSizeT(1)

\* reps_left - 1 on std::size_t (line 105).
SizeDec(w) ==
    IF \A b \in 1..SizeBits : w[b] = 0
    THEN [b \in 1..SizeBits |-> 1]
    ELSE LET k == CHOOSE b \in 1..SizeBits :
                      w[b] = 1 /\ \A c \in 1..(b - 1) : w[c] = 0
         IN  [b \in 1..SizeBits |->
                 IF b < k THEN 1 ELSE IF b = k THEN 0 ELSE w[b]]

\* ------------------------------------------------- helpers of other headers
\* The elements of a sequence.
Range(s) == {s[k] : k \in 1..Len(s)}

\* transform(f, xs): f applied to every element, order kept.  A callable is
\* a function defined on the elements it is applied to.
transform(f, s) == [k \in 1..Len(s) |-> f[s[k]]]

\* keep_if(pred, xs): the elements satisfying pred, order kept.
keep_if(pred, s) == SelectSeq(s, LAMBDA x : pred[x])

\* append(xs, ys): concatenation.
append(s, t) == s \o t

\* all_idxs(xs) == [0, 1, ..., size - 1]
all_idxs(s) == [k \in 1..Len(s) |-> k - 1]

\* elems_at_idxs(idxs, xs): xs[idx] for every idx, in the order of idxs.
elems_at_idxs(t, s) == [j \in 1..Len(t) |-> s[t[j] + 1]]

\* get_range(idx_begin, idx_end, xs): the elements xs[idx_begin .. idx_end).
get_range(a, b, s) == [j \in 1..(b - a) |-> s[a + j]]

\* convert_container / convert_container_and_elems: a new container holding
\* the same elements in the same order.
convert_container(s) == [k \in 1..Len(s) |-> s[k]]

\* The three index-tuple predicates.
all_unique(t) == \A a, b \in 1..Len(t) : a # b => t[a] # t[b]

is_sorted(t) == \A a \in 1..(Len(t) - 1) : t[a] <= t[a + 1]

is_strictly_sorted(t) == \A a \in 1..(Len(t) - 1) : t[a] < t[a + 1]

\* ------------------------------------------------------------- generate.h
\* replicate(n, x) == ContainerOut(n, x)
replicate(n, x) == [k \in 1..n |-> x]

\* Lines 98-102: ys = replicate(size(xs), a); ys[i].push_back(xs[i]).
extend_one_front(s, a) ==
    LET ys == replicate(Len(s), a)
    IN  [k \in 1..Len(ys) |-> <<s[k]>> \o ys[k]]

extend_one(s, a) ==
    LET ys == replicate(Len(s), a)
    IN  [k \in 1..Len(ys) |-> Append(ys[k], s[k])]

\* Lines 95-104: the for loop over acc, building result.
RECURSIVE extend_loop(_, _, _, _)
extend_loop(s, acc0, k, res) ==
    IF k > Len(acc0)
    THEN res
    ELSE extend_loop(s, acc0, k + 1, append(res, extend_one(s, acc0[k])))

helper_extend(s, acc0) == extend_loop(s, acc0, 1, <<>>)

\* Lines 115-116: singletons = transform(elem_to_vec, xs).
singletons_of(s) == LET elem_to_vec == [x \in Range(s) |-> replicate(1, x)]
                    IN  transform(elem_to_vec, s)

\* Lines 86-106 as a function, for the powers whose recursion counts down to
\* the base case (reps >= 1).
RECURSIVE product_idxs_helper(_, _, _)
product_idxs_helper(s, acc0, reps) ==
    IF reps = 1
    THEN acc0
    ELSE product_idxs_helper(s, helper_extend(s, acc0), reps - 1)

\* Lines 111-118, for power >= 1.
product_idxs(p, s) == product_idxs_helper(s, singletons_of(s), p)

\* Lines 132-137 (and 152-157, 172-177, 192-197): index tuples to element
\* tuples.
to_result(idxss, s) ==
    LET to_result_cont ==
            [t \in Range(idxss) |-> convert_container(elems_at_idxs(t, s))]
    IN  transform(to_result_cont, idxss)

\* What each facade function keeps of product_idxs' output (lines 130, 149,
\* 169, 189).
product_keep(raw) == raw

permutations_keep_sorted(raw) ==
    keep_if([t \in Range(raw) |-> is_sorted(t)], raw)

permutations_keep(raw) ==
    keep_if([t \in Range(raw) |-> all_unique(t)], raw)

combinations_keep_sorted(raw) ==
    keep_if([t \in Range(raw) |-> is_sorted(t)], raw)

combinations_keep(raw) ==
    keep_if([t \in Range(raw) |-> is_strictly_sorted(t)], raw)

combinations_with_replacement_keep(raw) ==
    keep_if([t \in Range(raw) |-> is_sorted(t)], raw)

FacadeOps ==
    {"product", "permutations", "combinations", "combinations_with_replacement"}

kept_of(o, raw) ==
    CASE o = "product" -> product_keep(raw)
      [] o = "permutations" -> permutations_keep(raw)
      [] o = "combinations" -> combinations_keep(raw)
      [] o = "combinations_with_replacement" ->
             combinations_with_replacement_keep(raw)

\* ------------------------------------------------------------------- state
VARIABLES
    op,            \* the function called ("none" before the call)
    pc,            \* position of the call
    xs_in,         \* the caller's sequence
    xs,            \* the function's own copy / view of it
    power,         \* requested power (facade functions)
    idxs,          \* all_idxs(xs)
    acc,           \* product_idxs_helper's acc of the innermost frame
    reps_left,     \* product_idxs_helper's reps_left of the innermost frame
    depth,         \* number of product_idxs_helper frames on the stack
    result_idxss,  \* the facade's result_idxss
    result,        \* the returned container (facade functions, infixes)
    amount,        \* generate / generate_by_idx: amount
    length,        \* infixes: length
    i,             \* loop index (i of generate, idx of infixes)
    ys,            \* generate / generate_by_idx: ys
    calls          \* the invocations of f so far: <<argument, value>>

vars == <<op, pc, xs_in, xs, power, idxs, acc, reps_left, depth,
          result_idxss, result, amount, length, i, ys, calls>>

facade_vars == <<power, idxs, acc, reps_left, depth, result_idxss>>
gen_vars == <<amount, ys, calls>>

Init ==
    /\ op = "none"
    /\ pc = "idle"
    /\ xs_in = <<>>
    /\ xs = <<>>
    /\ power = 0
    /\ idxs = <<>>
    /\ acc = <<>>
    /\ reps_left = ToSizeT(0)
    /\ depth = 0
    /\ result_idxss = <<>>
    /\ result = <<>>
    /\ amount = 0
    /\ length = 0
    /\ i = 0
    /\ ys = <<>>
    /\ calls = <<>>

\* ------------------------------------------------- generate (lines 19-31)
generate ==
    /\ pc = "idle"
    /\ \E a \in 0..MaxAmount : amount' = a
    /\ op' = "generate"
    /\ ys' = <<>>
    /\ i' = 0
    /\ calls' = <<>>
    /\ pc' = "generate_loop"
    /\ UNCHANGED <<xs_in, xs, facade_vars, result, length>>

gen_continue_inclusive(k, a) == k <= a

gen_continue(k, a) == k < a

\* One iteration: *it = f().
generate_iter ==
    /\ pc = "generate_loop"
    /\ gen_continue(i, amount)
    /\ \E v \in Elems :
          /\ calls' = Append(calls, <<"()", v>>)
          /\ ys' = Append(ys, v)
    /\ i' = i + 1
    /\ UNCHANGED <<op, pc, xs_in, xs, facade_vars, result, amount, length>>

generate_return ==
    /\ pc = "generate_loop"
    /\ ~gen_continue(i, amount)
    /\ pc' = "done"
    /\ UNCHANGED <<op, xs_in, xs, facade_vars, result, amount, length, i, ys,
                   calls>>

\* ------------------------------------------ generate_by_idx (lines 34-48)
generate_by_idx ==
    /\ pc = "idle"
    /\ \E a \in 0..MaxAmount : amount' = a
    /\ op' = "generate_by_idx"
    /\ ys' = <<>>
    /\ i' = 0
    /\ calls' = <<>>
    /\ pc' = "generate_by_idx_loop"
    /\ UNCHANGED <<xs_in, xs, facade_vars, result, length>>

\* One iteration: *it = f(i).
generate_by_idx_iter ==
    /\ pc = "generate_by_idx_loop"
    /\ gen_continue(i, amount)
    /\ \E v \in Elems :
          /\ calls' = Append(calls, <<i, v>>)
          /\ ys' = Append(ys, v)
    /\ i' = i + 1
    /\ UNCHANGED <<op, pc, xs_in, xs, facade_vars, result, amount, length>>

generate_by_idx_return ==
    /\ pc = "generate_by_idx_loop"
    /\ ~gen_continue(i, amount)
    /\ pc' = "done"
    /\ UNCHANGED <<op, xs_in, xs, facade_vars, result, amount, length, i, ys,
                   calls>>

\* -------------------------------------------------- infixes (lines 66-82)
\* assert(length > 0) is taken as active: length == 0 aborts the call.
infixes ==
    /\ pc = "idle"
    /\ \E len \in 0..MaxLen, s \in Sources :
          /\ length' = len
          /\ xs_in' = s
          /\ xs' = s
          /\ pc' = IF len = 0 THEN "aborted"
                   ELSE IF Len(s) < len THEN "done"
                   ELSE "infixes_loop"
    /\ op' = "infixes"
    /\ result' = <<>>
    /\ i' = 0
    /\ UNCHANGED <<facade_vars, gen_vars>>

infix_window_short(idx, len, s) == get_range(idx, idx + len - 1, s)

infix_window(idx, len, s) == get_range(idx, idx + len, s)

infix_continue_exclusive(idx, len, s) == idx < Len(s) - len

infix_continue(idx, len, s) == idx <= Len(s) - len

\* One iteration: *itOut = get_range(idx, idx + length, xs).
infixes_iter ==
    /\ pc = "infixes_loop"
    /\ infix_continue(i, length, xs)
    /\ result' = Append(result, infix_window(i, length, xs))
    /\ i' = i + 1
    /\ UNCHANGED <<op, pc, xs_in, xs, facade_vars, gen_vars, length>>

infixes_return ==
    /\ pc = "infixes_loop"
    /\ ~infix_continue(i, length, xs)
    /\ pc' = "done"
    /\ UNCHANGED <<op, xs_in, xs, facade_vars, gen_vars, result, length, i>>

\* ------------------------- product, permutations, combinations, c_w_r
\* Lines 128-130 (146-150, 166-170, 186-190) up to the first call of
\* product_idxs_helper: xs = convert_container(xs_in), idxs = all_idxs(xs),
\* singletons, product_idxs_helper(idxs, singletons, power).
facade_enter(o, p, s) ==
    /\ pc = "idle"
    /\ op' = o
    /\ xs_in' = s
    /\ xs' = convert_container(s)
    /\ power' = p
    /\ idxs' = all_idxs(convert_container(s))
    /\ acc' = singletons_of(all_idxs(convert_container(s)))
    /\ reps_left' = ToSizeT(p)
    /\ depth' = 1
    /\ pc' = "helper"
    /\ UNCHANGED <<result_idxss, result, gen_vars, length, i>>

product ==
    \E p \in 0..MaxPower, s \in Sources :
        facade_enter("product", p, s)

permutations ==
    \E p \in 0..MaxPower, s \in Sources :
        facade_enter("permutations", p, s)

combinations ==
    \E p \in 0..MaxPower, s \in Sources :
        facade_enter("combinations", p, s)

combinations_with_replacement ==
    \E p \in 0..MaxPower, s \in Sources :
        facade_enter("combinations_with_replacement", p, s)

\* Lines 92, 94-105: reps_left != 1, so the frame extends every tuple of acc
\* by every element of xs and calls itself with reps_left - 1.
helper_recurse ==
    /\ pc = "helper"
    /\ reps_left # SizeOne
    /\ depth < StackLimit
    /\ acc' = helper_extend(idxs, acc)
    /\ reps_left' = SizeDec(reps_left)
    /\ depth' = depth + 1
    /\ UNCHANGED <<op, pc, xs_in, xs, power, idxs, result_idxss, result,
                   gen_vars, length, i>>

\* The same step when no further frame fits: the call ends without a result.
helper_exhausted ==
    /\ pc = "helper"
    /\ reps_left # SizeOne
    /\ depth >= StackLimit
    /\ pc' = "failed"
    /\ UNCHANGED <<op, xs_in, xs, facade_vars, result, gen_vars, length, i>>

\* Lines 92-93: the base case returns acc through every frame; the facade
\* function then filters and maps it (lines 130-137, 149-157, 169-177,
\* 189-197) and returns.
helper_base ==
    /\ pc = "helper"
    /\ reps_left = SizeOne
    /\ result_idxss' = kept_of(op, acc)
    /\ result' = to_result(kept_of(op, acc), xs)
    /\ depth' = 0
    /\ pc' = "done"
    /\ UNCHANGED <<op, xs_in, xs, power, idxs, acc, reps_left, gen_vars,
                   length, i>>

Next ==
    \/ generate
    \/ generate_iter
    \/ generate_return
    \/ generate_by_idx
    \/ generate_by_idx_iter
    \/ generate_by_idx_return
    \/ infixes
    \/ infixes_iter
    \/ infixes_return
    \/ product
    \/ permutations
    \/ combinations
    \/ combinations_with_replacement
    \/ helper_recurse
    \/ helper_exhausted
    \/ helper_base

Spec == Init /\ [][Next]_vars

\* ------------------------------------------------------------ arithmetic
RECURSIVE Pow(_, _)
Pow(b, e) == IF e = 0 THEN 1 ELSE b * Pow(b, e - 1)

RECURSIVE Fact(_)
Fact(k) == IF k <= 0 THEN 1 ELSE k * Fact(k - 1)

\* Binomial coefficient, 0 outside 0 <= b <= a.
Binom(a, b) ==
    IF b < 0 \/ b > a THEN 0 ELSE Fact(a) \div (Fact(b) * Fact(a - b))

Max(a, b) == IF a >= b THEN a ELSE b

Returned(o) == op = o /\ pc = "done"

\* The call of o has ended, with or without a result.
Ended(o) == op = o /\ pc \in {"done", "failed"}

\* product(p, s) as a function of its arguments (lines 126-138), p >= 1.
product_of(p, s) ==
    to_result(product_keep(product_idxs(p, all_idxs(convert_container(s)))),
              convert_container(s))

\* The positions (1-based, ascending) of the index tuples of raw that the
\* filter of facade function o keeps.
kept_positions(o, raw) ==
    LET keeps(k) ==
            CASE o = "permutations" -> all_unique(raw[k])
              [] o = "combinations" -> is_strictly_sorted(raw[k])
              [] o = "combinations_with_replacement" -> is_sorted(raw[k])
    IN  SelectSeq([k \in 1..Len(raw) |-> k], keeps)

\* ------------------------------------------------------------------ claims

\* C1: for every source xs of size n (n = 0 included) and every power p >= 0
\* (p = 0 included), product(p, xs) returns exactly n^p tuples, each of
\* length p.
C1_ProductSize ==
    Ended("product") =>
        /\ pc = "done"
        /\ Len(result) = Pow(Len(xs_in), power)
        /\ \A k \in 1..Len(result) : Len(result[k]) = power

\* The same for the powers p >= 1 only.
ProductSizePositivePower ==
    (Ended("product") /\ power >= 1) =>
        /\ pc = "done"
        /\ Len(result) = Pow(Len(xs_in), power)
        /\ \A k \in 1..Len(result) : Len(result[k]) = power

\* C2: for p >= 1, product(p, xs) lists the tuples in lexicographic order of
\* their index tuples, first position varying slowest: the tuple at output
\* position k (0-based) holds at position j (0-based) the element
\* xs[(k div n^(p-1-j)) mod n].
C2_ProductOrder ==
    (Returned("product") /\ power >= 1) =>
        LET n == Len(xs_in)
        IN  /\ Len(result) = Pow(n, power)
            /\ \A k \in 0..(Pow(n, power) - 1) :
                  /\ Len(result[k + 1]) = power
                  /\ \A j \in 0..(power - 1) :
                        result[k + 1][j + 1] =
                            xs_in[((k \div Pow(n, power - 1 - j)) % n) + 1]

\* product(2, "ABCD") has returned AA AB AC AD BA BB ... DD.
C2_Witness ==
    /\ Returned("product")
    /\ power = 2
    /\ xs_in = <<"A", "B", "C", "D">>
    /\ result = << <<"A", "A">>, <<"A", "B">>, <<"A", "C">>, <<"A", "D">>,
                   <<"B", "A">>, <<"B", "B">>, <<"B", "C">>, <<"B", "D">>,
                   <<"C", "A">>, <<"C", "B">>, <<"C", "C">>, <<"C", "D">>,
                   <<"D", "A">>, <<"D", "B">>, <<"D", "C">>, <<"D", "D">> >>

\* C3: every call of product, permutations, combinations or
\* combinations_with_replacement runs to completion for every power >= 0 and
\* every source size n >= 0: no call ends without returning a result.
C3_CallsComplete ==
    op \in FacadeOps => pc # "failed"

\* The same for the powers p >= 1 only.
CallsCompletePositivePower ==
    (op \in FacadeOps /\ power >= 1) => pc # "failed"

\* C4: for every source of size n and every power p with 0 <= p <= n,
\* permutations(p, xs) returns exactly n!/(n-p)! tuples; for p > n it returns
\* an empty result.
C4_PermutationsSize ==
    Ended("permutations") =>
        /\ pc = "done"
        /\ Len(result) = IF power <= Len(xs_in)
                         THEN Fact(Len(xs_in)) \div Fact(Len(xs_in) - power)
                         ELSE 0

\* The same for the powers p >= 1 only.
PermutationsSizePositivePower ==
    (Ended("permutations") /\ power >= 1) =>
        /\ pc = "done"
        /\ Len(result) = IF power <= Len(xs_in)
                         THEN Fact(Len(xs_in)) \div Fact(Len(xs_in) - power)
                         ELSE 0

\* C5 as stated: every tuple produced by permutations(p, xs) has
\* pairwise-distinct elements, for every source xs, sources holding equal
\* elements at different positions included.
C5_DistinctElements ==
    Returned("permutations") =>
        \A k \in 1..Len(result) : all_unique(result[k])

\* C5 as amended: every tuple produced by permutations(p, xs) is built from
\* pairwise-distinct source positions (its index tuple has no index twice and
\* the tuple holds the source's elements at these positions); its elements
\* are pairwise distinct whenever the elements of xs are.
C5_DistinctPositions ==
    Returned("permutations") =>
        /\ Len(result) = Len(result_idxss)
        /\ \A k \in 1..Len(result) :
              /\ Len(result_idxss[k]) = power
              /\ \A j \in 1..power :
                    result_idxss[k][j] \in 0..(Len(xs_in) - 1)
              /\ all_unique(result_idxss[k])
              /\ result[k] = elems_at_idxs(result_idxss[k], xs_in)
              /\ all_unique(xs_in) => all_unique(result[k])

\* permutations(2, "AAB") has returned a result that holds AA, built from
\* the positions 0 and 1.
C5_Witness ==
    /\ Returned("permutations")
    /\ power = 2
    /\ xs_in = <<"A", "A", "B">>
    /\ \E k \in 1..Len(result) :
          result[k] = <<"A", "A">> /\ result_idxss[k] = <<0, 1>>

\* C6: for every source of size n and every power p, combinations(p, xs)
\* returns exactly C(n, p) tuples, each built from a strictly increasing
\* tuple of source indices, no two from the same index tuple.
C6_CombinationsSize ==
    Ended("combinations") =>
        /\ pc = "done"
        /\ Len(result) = Binom(Len(xs_in), power)
        /\ Len(result_idxss) = Len(result)
        /\ \A k \in 1..Len(result) :
              /\ is_strictly_sorted(result_idxss[k])
              /\ result[k] = elems_at_idxs(result_idxss[k], xs_in)
        /\ \A k, m \in 1..Len(result) :
              k # m => result_idxss[k] # result_idxss[m]

\* The same for the powers p >= 1 only.
CombinationsSizePositivePower ==
    (Ended("combinations") /\ power >= 1) =>
        /\ pc = "done"
        /\ Len(result) = Binom(Len(xs_in), power)
        /\ Len(result_idxss) = Len(result)
        /\ \A k \in 1..Len(result) :
              /\ is_strictly_sorted(result_idxss[k])
              /\ result[k] = elems_at_idxs(result_idxss[k], xs_in)
        /\ \A k, m \in 1..Len(result) :
              k # m => result_idxss[k] # result_idxss[m]

\* C7: for every source of size n and every power p,
\* combinations_with_replacement(p, xs) returns exactly C(n+p-1, p) tuples,
\* each built from a non-decreasing tuple of source indices.
C7_CombinationsWithReplacementSize ==
    Ended("combinations_with_replacement") =>
        /\ pc = "done"
        /\ Len(result) = Binom(Len(xs_in) + power - 1, power)
        /\ Len(result_idxss) = Len(result)
        /\ \A k \in 1..Len(result) :
              /\ is_sorted(result_idxss[k])
              /\ result[k] = elems_at_idxs(result_idxss[k], xs_in)

\* The same for the powers p >= 1 only.
CombinationsWithReplacementSizePositivePower ==
    (Ended("combinations_with_replacement") /\ power >= 1) =>
        /\ pc = "done"
        /\ Len(result) = Binom(Len(xs_in) + power - 1, power)
        /\ Len(result_idxss) = Len(result)
        /\ \A k \in 1..Len(result) :
              /\ is_sorted(result_idxss[k])
              /\ result[k] = elems_at_idxs(result_idxss[k], xs_in)

\* C8: for every length > 0 and every xs, infixes(length, xs) returns exactly
\* max(0, |xs| - length + 1) windows, ordered by increasing start index i,
\* window i being xs[i .. i+length); the result is empty when |xs| < length.
C8_Infixes ==
    (op = "infixes" /\ length > 0) =>
        /\ pc \in {"infixes_loop", "done"}
        /\ Len(result) = i
        /\ \A k \in 0..(Len(result) - 1) :
              result[k + 1] = SubSeq(xs_in, k + 1, k + length)
        /\ pc = "done" =>
              /\ Len(result) = Max(0, Len(xs_in) - length + 1)
              /\ Len(xs_in) < length => result = <<>>

\* infixes(3, "ABCD") has returned ABC BCD.
C8_Witness ==
    /\ Returned("infixes")
    /\ length = 3
    /\ xs_in = <<"A", "B", "C", "D">>
    /\ result = << <<"A", "B", "C">>, <<"B", "C", "D">> >>

\* C9: generate(f, amount) invokes f exactly amount times and
\* generate_by_idx(f, amount) invokes f(i) exactly once for each
\* i = 0..amount-1 in increasing order of i; the k-th element of the result is
\* the value of the k-th invocation and the result has amount elements.
C9_Generate ==
    (op \in {"generate", "generate_by_idx"}) =>
        /\ Len(calls) = i
        /\ Len(ys) = Len(calls)
        /\ Len(calls) <= amount
        /\ \A k \in 1..Len(calls) : ys[k] = calls[k][2]
        /\ op = "generate_by_idx" =>
              \A k \in 1..Len(calls) : calls[k][1] = k - 1
        /\ pc = "done" => Len(calls) = amount /\ Len(ys) = amount

\* generate_by_idx(f, 3) has returned [f(0), f(1), f(2)] = A B A.
C9_Witness ==
    /\ Returned("generate_by_idx")
    /\ amount = 3
    /\ calls = << <<0, "A">>, <<1, "B">>, <<2, "A">> >>
    /\ ys = <<"A", "B", "A">>

\* C10: for p >= 1 the outputs of permutations, combinations and
\* combinations_with_replacement are each the order-preserving subsequence of
\* product(p, xs) that keeps exactly the positions whose index tuple satisfies
\* all_unique, is_strictly_sorted and is_sorted respectively (nothing
\* reordered, dropped or duplicated), product(p, xs) being what a call of
\* product returns, and the source sequence is unchanged.
C10_FilteredSubsequence ==
    /\ (Returned("product") /\ power >= 1) =>
          result = product_of(power, xs_in)
    /\ (op \in FacadeOps \ {"product"} /\ pc = "done" /\ power >= 1) =>
          LET raw  == product_idxs(power, all_idxs(xs_in))
              prod == product_of(power, xs_in)
              keep == kept_positions(op, raw)
          IN  /\ Len(prod) = Len(raw)
              /\ result = [m \in 1..Len(keep) |-> prod[keep[m]]]
              /\ xs = xs_in
    /\ op \in FacadeOps => xs = xs_in

\* combinations(2, "ABCD") has returned AB AC AD BC BD CD.
C10_Witness ==
    /\ Returned("combinations")
    /\ power = 2
    /\ xs_in = <<"A", "B", "C", "D">>
    /\ result = << <<"A", "B">>, <<"A", "C">>, <<"A", "D">>,
                   <<"B", "C">>, <<"B", "D">>, <<"C", "D">> >>

====
